---------------------------- MODULE Spec2Model ----------------------------
(***************************************************************************)
(* Model of src/main.py: the PhysicsEngine of the colliding-blocks         *)
(* simulation (two blocks and a wall, event-driven elastic collisions).    *)
(*                                                                         *)
(* The engine computes in Python floats (IEEE-754 binary64, round to       *)
(* nearest, ties to even).  The model computes in the same arithmetic: a   *)
(* float is a record [s, m, e] standing for  s * m * 2^e  with s the sign  *)
(* (-1, 0, 1) and m the 53-bit significand, kept as four base-2^14 limbs   *)
(* (least significant first) because the model checker's integers are 32   *)
(* bits wide.  inf and nan are values of their own, and a result past the  *)
(* largest finite float is inf.  Results below the normal range are not    *)
(* rounded as binary64 rounds them: NormalRange states that every value    *)
(* the engine holds stays out of there.  0.0 and -0.0 are one value: the   *)
(* engine only compares, adds and multiplies zeros, and never divides by   *)
(* one.                                                                    *)
(***************************************************************************)
EXTENDS Integers, Sequences, FiniteSets, TLC

-----------------------------------------------------------------------------
(* Unsigned integers of fixed width: tuples of limbs, least significant     *)
(* first.  Every value computed once is handed on as a parameter.           *)

LimbBits == 14
B == 2^LimbBits
Precision == 53

Pow2(k) == 2^k

\* the number of bits of one limb d (0 for d = 0)
BitsOfLimb(d) == CHOOSE k \in 0..LimbBits : d < Pow2(k) /\ (k = 0 \/ d >= Pow2(k - 1))

\* the limbs of the number whose columns (any integers) are t[i..Len(t)], with
\* c carried in; the carry out of the last column is dropped
RECURSIVE Carry(_, _, _)
Carry(t, i, c) ==
    IF i > Len(t) THEN <<>>
    ELSE <<(t[i] + c) % B>> \o Carry(t, i + 1, (t[i] + c) \div B)

\* -1, 0, 1 as a < b, a = b, a > b, from limb i down
RECURSIVE CmpFrom(_, _, _)
CmpFrom(a, b, i) ==
    IF i = 0 THEN 0
    ELSE IF a[i] < b[i] THEN -1
    ELSE IF a[i] > b[i] THEN 1
    ELSE CmpFrom(a, b, i - 1)

Cmp4(a, b) == CmpFrom(a, b, 4)
Cmp5(a, b) == CmpFrom(a, b, 5)

\* a + b in five limbs, for a and b of four limbs
Add4(a, b) == Carry(<<a[1] + b[1], a[2] + b[2], a[3] + b[3], a[4] + b[4], 0>>, 1, 0)

\* a - b for a >= b, both of five limbs
Sub5(a, b) == Carry(<<a[1] - b[1], a[2] - b[2], a[3] - b[3], a[4] - b[4], a[5] - b[5]>>, 1, 0)

Wide(a) == <<a[1], a[2], a[3], a[4], 0>>
Narrow(a) == <<a[1], a[2], a[3], a[4]>>

\* a - b for a >= b, both of four limbs
Sub4(a, b) == Narrow(Sub5(Wide(a), Wide(b)))

\* a * d in five limbs, for a of four limbs and one limb d
MulLimb4(a, d) == Carry(<<a[1] * d, a[2] * d, a[3] * d, a[4] * d, 0>>, 1, 0)

\* a * b in eight limbs, for a and b of four limbs
Mul4(a, b) ==
    Carry(<< a[1] * b[1],
             a[1] * b[2] + a[2] * b[1],
             a[1] * b[3] + a[2] * b[2] + a[3] * b[1],
             a[1] * b[4] + a[2] * b[3] + a[3] * b[2] + a[4] * b[1],
             a[2] * b[4] + a[3] * b[3] + a[4] * b[2],
             a[3] * b[4] + a[4] * b[3],
             a[4] * b[4],
             0 >>, 1, 0)

\* a * l for l = 2^r and h = B / l, the bits pushed out at the top dropped
ShlBy(a, l, h) ==
    << (a[1] % h) * l,
       (a[2] % h) * l + a[1] \div h,
       (a[3] % h) * l + a[2] \div h,
       (a[4] % h) * l + a[3] \div h >>

\* a * 2^r for 0 <= r < LimbBits
ShlBits4(a, r) == ShlBy(a, Pow2(r), Pow2(LimbBits - r))

\* a * B^q for q >= 0, the limbs pushed out at the top dropped
ShlLimbs4(a, q) ==
    IF q = 0 THEN a
    ELSE IF q = 1 THEN <<0, a[1], a[2], a[3]>>
    ELSE IF q = 2 THEN <<0, 0, a[1], a[2]>>
    ELSE IF q = 3 THEN <<0, 0, 0, a[1]>>
    ELSE <<0, 0, 0, 0>>

\* the number of bits of a four-limb a
BitLen4(a) ==
    IF a[4] # 0 THEN 3 * LimbBits + BitsOfLimb(a[4])
    ELSE IF a[3] # 0 THEN 2 * LimbBits + BitsOfLimb(a[3])
    ELSE IF a[2] # 0 THEN LimbBits + BitsOfLimb(a[2])
    ELSE BitsOfLimb(a[1])

\* a * 2^k for k >= 0
Shl4(a, k) == ShlBits4(ShlLimbs4(a, k \div LimbBits), k % LimbBits)

\* a with its lowest bit set when st (the sticky bit)
SetSticky(a, st) ==
    IF st /\ a[1] % 2 = 0 THEN <<a[1] + 1, a[2], a[3], a[4]>> ELSE a

\* a \div B^q for q >= 0
ShrLimbs4(a, q) ==
    IF q = 0 THEN a
    ELSE IF q = 1 THEN <<a[2], a[3], a[4], 0>>
    ELSE IF q = 2 THEN <<a[3], a[4], 0, 0>>
    ELSE IF q = 3 THEN <<a[4], 0, 0, 0>>
    ELSE <<0, 0, 0, 0>>

\* whether a has a bit set in its q lowest limbs
LowLimbs(a, q) ==
    \/ (q >= 1 /\ a[1] # 0) \/ (q >= 2 /\ a[2] # 0)
    \/ (q >= 3 /\ a[3] # 0) \/ (q >= 4 /\ a[4] # 0)

\* w \div l for l = 2^r and h = B / l (the top limb of w may hold one bit
\* more than a limb)
ShrBits(w, l, h) ==
    << w[1] \div l + (w[2] % l) * h,
       w[2] \div l + (w[3] % l) * h,
       w[3] \div l + (w[4] % l) * h,
       w[4] \div l >>

\* the same, sticky when lost or when a bit falls off
ShrBy(w, l, h, lost) == SetSticky(ShrBits(w, l, h), lost \/ w[1] % l # 0)

\* a \div 2^k for k >= 0, with the lowest bit set when a bit was lost
ShrSticky4(a, k) ==
    ShrBy(ShrLimbs4(a, k \div LimbBits), Pow2(k % LimbBits),
          Pow2(LimbBits - (k % LimbBits)), LowLimbs(a, k \div LimbBits))

\* long division, one digit: the largest q <= qhat with q * d <= r, and
\* r - q * d, given p = qhat * d; qhat is at most 2 too big
RECURSIVE DivFix(_, _, _, _)
DivFix(r, d, qhat, p) ==
    IF Cmp5(p, r) <= 0 THEN <<qhat, Narrow(Sub5(r, p))>>
    ELSE DivFix(r, d, qhat - 1, Sub5(p, Wide(d)))

DivTry(r, d, qhat) == DivFix(r, d, qhat, MulLimb4(d, qhat))

\* <<r \div d, r % d>> for r (five limbs) below d * B, where d (four limbs)
\* has its top bit set, so that the estimate from the top limbs is close
DivStep(r, d) ==
    DivTry(r, d, IF (r[5] * B + r[4]) \div d[4] > B - 1 THEN B - 1
                 ELSE (r[5] * B + r[4]) \div d[4])

\* n more digits of r / d after the digits q (least significant first):
\* <<the digits, the remainder>>
RECURSIVE DivDigits(_, _, _, _)
DivNext(st, d, n, q) == DivDigits(st[2], d, n - 1, <<st[1]>> \o q)
DivDigits(r, d, n, q) ==
    IF n = 0 THEN <<q, r>>
    ELSE DivNext(DivStep(<<0, r[1], r[2], r[3], r[4]>>, d), d, n, q)

-----------------------------------------------------------------------------
(* Python floats: binary64, round to nearest, ties to even.                 *)
(* [s, m, e] is s * m * 2^e: s in {-1, 0, 1}, m the significand in four     *)
(* limbs, 2^52 <= m < 2^53 (m = 0 and e = 0 for zero).  The operations work *)
(* on the significand times 8: 56 bits, the low three being the guard,      *)
(* round and sticky bits.                                                   *)

FZero == [s |-> 0, m |-> <<0, 0, 0, 0>>, e |-> 0]

\* the float of sign s, significand m and exponent e, where m may have
\* been rounded up to 2^53
FPack(s, m, e) ==
    IF m[4] = B \div 8 THEN [s |-> s, m |-> <<0, 0, 0, B \div 16>>, e |-> e + 1]
    ELSE [s |-> s, m |-> m, e |-> e]

\* s * c * 2^e for a 56-bit c (top bit set) whose lowest bit is sticky,
\* rounded to Precision bits: up when the round bit is set and either a
\* lower bit or the last kept bit is
FRound(s, c, e) ==
    FPack(s,
          Carry(<< c[1] \div 8 + (c[2] % 8) * (B \div 8)
                     + (IF (c[1] \div 4) % 2 = 1 /\ (c[1] % 4 # 0 \/ (c[1] \div 8) % 2 = 1)
                        THEN 1 ELSE 0),
                   c[2] \div 8 + (c[3] % 8) * (B \div 8),
                   c[3] \div 8 + (c[4] % 8) * (B \div 8),
                   c[4] \div 8 >>, 1, 0),
          e + 3)

FNormBy(s, a, e, lz) == FRound(s, Shl4(a, lz), e - lz)

\* s * a * 2^e for any four-limb a # 0 of which only the top 56 bits may be set
FNorm(s, a, e) == FNormBy(s, a, e, 4 * LimbBits - BitLen4(a))

FromNat(s, a) == FNorm(s, <<a % B, (a \div B) % B, a \div (B * B), 0>>, 0)

\* float(n) for an integer n
FromInt(n) ==
    IF n = 0 THEN FZero
    ELSE IF n < 0 THEN FromNat(-1, -n)
    ELSE FromNat(1, n)

\* float('inf'): above every finite binary64 value (it stands where 2^1024 would)
InfExp == 972
FInf == [s |-> 1, m |-> <<0, 0, 0, B \div 16>>, e |-> InfExp]

\* float('nan'): one value, whatever its sign and payload
FNaN == [s |-> 0, m |-> <<0, 0, 0, 0>>, e |-> InfExp]

IsNaN(x) == x = FNaN
IsInf(x) == x.s # 0 /\ x.e = InfExp

\* a rounded result r: infinite once it is past the largest finite float
Over(r) ==
    IF r.s # 0 /\ r.e >= InfExp THEN [s |-> r.s, m |-> FInf.m, e |-> InfExp] ELSE r

FNeg(x) == [s |-> -x.s, m |-> x.m, e |-> x.e]
FAbs(x) == [s |-> IF x.s = 0 THEN 0 ELSE 1, m |-> x.m, e |-> x.e]

FMagCmp(x, y) ==
    IF x.e # y.e THEN (IF x.e < y.e THEN -1 ELSE 1) ELSE Cmp4(x.m, y.m)

\* -1, 0, 1 as x < y, x == y, x > y, for x and y other than nan
FCmp(x, y) ==
    IF x.s # y.s THEN (IF x.s < y.s THEN -1 ELSE 1)
    ELSE IF x.s = 0 THEN 0
    ELSE x.s * FMagCmp(x, y)

\* every comparison with nan is False
Ordered(x, y) == ~IsNaN(x) /\ ~IsNaN(y)

FLt(x, y) == Ordered(x, y) /\ FCmp(x, y) < 0
FLe(x, y) == Ordered(x, y) /\ FCmp(x, y) <= 0
FGe(x, y) == Ordered(x, y) /\ FCmp(x, y) >= 0
FGt(x, y) == Ordered(x, y) /\ FCmp(x, y) > 0

\* s * su * 2^e for a sum su of five limbs
FSum(s, su, e) ==
    FRound(s,
           IF su[5] = 0 THEN Narrow(su)
           ELSE ShrSticky4(<<su[1], su[2], su[3], su[4] + B>>, 1),
           e + su[5])

\* sa * a * 2^e + sb * b * 2^e for signs sa # sb, where c compares a with b
FDiff(sa, sb, a, b, c, e) ==
    IF c = 0 THEN FZero
    ELSE FNorm(IF c > 0 THEN sa ELSE sb,
               Sub4(IF c > 0 THEN a ELSE b, IF c > 0 THEN b ELSE a), e)

FAddAligned(sa, sb, a, b, e) ==
    IF sa = sb THEN FSum(sa, Add4(a, b), e)
    ELSE FDiff(sa, sb, a, b, Cmp4(a, b), e)

\* big + small for nonzero floats with big.e >= small.e
FAddOrdered(big, small) ==
    FAddAligned(big.s, small.s, ShlBits4(big.m, 3),
                ShrSticky4(ShlBits4(small.m, 3), big.e - small.e), big.e - 3)

\* x + y for finite x and y
FAddFinite(x, y) ==
    IF x.s = 0 THEN y
    ELSE IF y.s = 0 THEN x
    ELSE Over(FAddOrdered(IF x.e >= y.e THEN x ELSE y, IF x.e >= y.e THEN y ELSE x))

\* x + y: nan with a nan, and for inf + -inf
FAdd(x, y) ==
    IF IsNaN(x) \/ IsNaN(y) THEN FNaN
    ELSE IF IsInf(x) THEN (IF IsInf(y) /\ y.s # x.s THEN FNaN ELSE x)
    ELSE IF IsInf(y) THEN y
    ELSE FAddFinite(x, y)

FSub(x, y) == FAdd(x, FNeg(y))

LowOr(a, x) == <<a[1] + x, a[2], a[3], a[4]>>

\* s * p * 2^e for a product p (eight limbs) of 112 - k bits: the top 56
\* bits of p * 2^k, sticky for the rest
FMulTop(s, p, e, k) ==
    FRound(s,
           SetSticky(LowOr(ShlBits4(<<p[5], p[6], p[7], p[8]>>, k),
                           p[4] \div Pow2(LimbBits - k)),
                     p[1] # 0 \/ p[2] # 0 \/ p[3] # 0 \/ p[4] % Pow2(LimbBits - k) # 0),
           e + 4 * LimbBits - k)

\* the product of two 53-bit significands has 105 or 106 bits
FMulProduct(s, p, e) == FMulTop(s, p, e, IF p[8] >= Pow2(7) THEN 6 ELSE 7)

\* x * y for finite x and y
FMulFinite(x, y) ==
    IF x.s = 0 \/ y.s = 0 THEN FZero
    ELSE Over(FMulProduct(x.s * y.s, Mul4(x.m, y.m), x.e + y.e))

\* x * y: nan with a nan, and for inf * 0
FMul(x, y) ==
    IF IsNaN(x) \/ IsNaN(y) THEN FNaN
    ELSE IF IsInf(x) \/ IsInf(y)
         THEN (IF x.s = 0 \/ y.s = 0 THEN FNaN
               ELSE [s |-> x.s * y.s, m |-> FInf.m, e |-> InfExp])
    ELSE FMulFinite(x, y)

\* s * (q0 * B^4 + the digits qr[1]) * 2^e, sticky when the remainder qr[2] # 0
FDivEnd(s, q0, qr, e) ==
    FRound(s,
           SetSticky(IF q0 = 0 THEN qr[1]
                     ELSE ShrSticky4(<<qr[1][1], qr[1][2], qr[1][3], qr[1][4] + B>>, 1),
                     qr[2] # <<0, 0, 0, 0>>),
           e + q0)

FDivFrom(s, a, d, e, q0) ==
    FDivEnd(s, q0, DivDigits(IF q0 = 1 THEN Sub4(a, d) ELSE a, d, 4, <<>>), e)

\* s * (a / d) * 2^(e + 56) for 56-bit a and d: a / d is in (1/2, 2), so the
\* quotient a * 2^56 \div d has 56 or 57 bits
FDivAligned(s, a, d, e) == FDivFrom(s, a, d, e, IF Cmp4(a, d) >= 0 THEN 1 ELSE 0)

\* x / y for finite x and y, y # 0
FDivFinite(x, y) ==
    IF x.s = 0 THEN FZero
    ELSE Over(FDivAligned(x.s * y.s, ShlBits4(x.m, 3), ShlBits4(y.m, 3),
                          x.e - y.e - 4 * LimbBits))

\* x / y for y # 0: nan with a nan, and for inf / inf
FDiv(x, y) ==
    IF IsNaN(x) \/ IsNaN(y) THEN FNaN
    ELSE IF IsInf(x)
         THEN (IF IsInf(y) THEN FNaN ELSE [s |-> x.s * y.s, m |-> FInf.m, e |-> InfExp])
    ELSE IF IsInf(y) THEN FZero
    ELSE FDivFinite(x, y)

\* Python's min(x, y): y when y < x, else x (so x when either is nan)
FMin(x, y) == IF FLt(y, x) THEN y ELSE x

\* the float p / q of two integers (q # 0), as Python's true division gives it
FRat(p, q) == FDiv(FromInt(p), FromInt(q))

-----------------------------------------------------------------------------
(* class PhysicsEngine *)

X1Start == 400
X2Start == 200
W1Width == 150
W2Width == 50
M2Mass == 1

\* variant: the small block set moving with the large one
PhysicsEngineMoving(mass_large, velocity_large) ==
    [ m1 |-> mass_large,
      m2 |-> FromInt(M2Mass),
      x1 |-> FromInt(X1Start),
      x2 |-> FromInt(X2Start),
      w1 |-> FromInt(W1Width),
      w2 |-> FromInt(W2Width),
      v1 |-> velocity_large,
      v2 |-> velocity_large,
      collisions |-> 0,
      finished |-> FALSE ]

\* PhysicsEngine.__init__
PhysicsEngine(mass_large, velocity_large) ==
    [ m1 |-> mass_large,
      m2 |-> FromInt(M2Mass),
      x1 |-> FromInt(X1Start),
      x2 |-> FromInt(X2Start),
      w1 |-> FromInt(W1Width),
      w2 |-> FromInt(W2Width),
      v1 |-> velocity_large,
      v2 |-> FZero,
      collisions |-> 0,
      finished |-> FALSE ]

\* variant: the wall bounce leaves the count alone
WallUncounted(self) ==
    [self EXCEPT !.v2 = FMul(self.v2, FromInt(-1))]

\* variant: the wall bounce always sends the small block away from the wall
WallAway(self) ==
    [self EXCEPT !.v2 = FAbs(self.v2),
                 !.collisions = self.collisions + 1]

\* PhysicsEngine.resolve_wall_collision
resolve_wall_collision(self) ==
    [self EXCEPT !.v2 = FMul(self.v2, FromInt(-1)),
                 !.collisions = self.collisions + 1]

\* variant: the second term of v1 weighted by m1 instead of m2
BlockV1Heavy(m1, m2, u1, u2) ==
    FDiv(FAdd(FMul(FSub(m1, m2), u1), FMul(FMul(FromInt(2), m1), u2)), FAdd(m1, m2))

\* variant: the first term of v2 with the masses the other way round
BlockV2Swapped(m1, m2, u1, u2) ==
    FDiv(FAdd(FMul(FSub(m1, m2), u2), FMul(FMul(FromInt(2), m1), u1)), FAdd(m1, m2))

\* the new velocities of resolve_block_collision
BlockV1(m1, m2, u1, u2) ==
    FDiv(FAdd(FMul(FSub(m1, m2), u1), FMul(FMul(FromInt(2), m2), u2)), FAdd(m1, m2))

BlockV2(m1, m2, u1, u2) ==
    FDiv(FAdd(FMul(FSub(m2, m1), u2), FMul(FMul(FromInt(2), m1), u1)), FAdd(m1, m2))

\* PhysicsEngine.resolve_block_collision
resolve_block_collision(self) ==
    [self EXCEPT !.v1 = BlockV1(self.m1, self.m2, self.v1, self.v2),
                 !.v2 = BlockV2(self.m1, self.m2, self.v1, self.v2),
                 !.collisions = self.collisions + 1]

\* variant: the wall time computed for a block at rest as well
TWallAtRest(self) ==
    IF FLe(self.v2, FZero) THEN FDiv(self.x2, FAbs(self.v2)) ELSE FInf

\* step: time until the small block reaches the wall
TWall(self) ==
    IF FLt(self.v2, FZero) THEN FDiv(self.x2, FAbs(self.v2)) ELSE FInf

\* step: time until the large block reaches the small one
TBlock(self) ==
    IF FLt(self.v1, self.v2)
    THEN FDiv(FSub(self.x1, FAdd(self.x2, self.w2)), FSub(self.v2, self.v1))
    ELSE FInf

\* step: both positions moved on by t
Move(self, t) ==
    [self EXCEPT !.x1 = FAdd(self.x1, FMul(self.v1, t)),
                 !.x2 = FAdd(self.x2, FMul(self.v2, t))]

\* variant: the wall bounce taken when the two times are equal
ResolveNextTieWall(self, t_wall, t_block) ==
    IF FLe(t_wall, t_block) THEN resolve_wall_collision(self)
    ELSE resolve_block_collision(self)

\* variant: the block bounce made whichever event comes first
ResolveNextBlock(self, t_wall, t_block) ==
    resolve_block_collision(self)

\* step: the branch taken when an event falls within the remaining time
ResolveNext(self, t_wall, t_block) ==
    IF FLt(t_wall, t_block) THEN resolve_wall_collision(self)
    ELSE resolve_block_collision(self)

\* the most events one call is followed through; overrun tells when a call had more
MaxEvents == 12

\* variant: an if in place of the while, at most one event per call
StepLoopOnce(self, time_remaining, log) ==
    IF ~FGt(time_remaining, FZero) THEN [self |-> self, log |-> log, cut |-> FALSE]
    ELSE IF FLe(FMin(TWall(self), TBlock(self)), time_remaining)
         THEN [ self |-> ResolveNext(Move(self, FMin(TWall(self), TBlock(self))),
                                     TWall(self), TBlock(self)),
                log  |-> Append(log, [ kind |-> IF FLt(TWall(self), TBlock(self)) THEN "wall" ELSE "block",
                                       t_wall |-> TWall(self), t_block |-> TBlock(self),
                                       t_next |-> FMin(TWall(self), TBlock(self)),
                                       at |-> Move(self, FMin(TWall(self), TBlock(self))),
                                       after |-> ResolveNext(Move(self, FMin(TWall(self), TBlock(self))),
                                                             TWall(self), TBlock(self)) ]),
                cut  |-> FALSE ]
         ELSE [self |-> Move(self, time_remaining), log |-> log, cut |-> FALSE]

\* step: the while loop.  log lists the events resolved so far in this call:
\* the times computed, and the engine at the instant of impact and after
\* the bounce.
RECURSIVE StepLoop(_, _, _)
StepLoop(self, time_remaining, log) ==
    IF ~FGt(time_remaining, FZero) THEN [self |-> self, log |-> log, cut |-> FALSE]
    ELSE IF Len(log) >= MaxEvents THEN [self |-> self, log |-> log, cut |-> TRUE]
    ELSE LET t_wall  == TWall(self)
             t_block == TBlock(self)
             t_next  == FMin(t_wall, t_block)
         IN  IF FLe(t_next, time_remaining)
             THEN LET at    == Move(self, t_next)
                      after == ResolveNext(at, t_wall, t_block)
                  IN  StepLoop(after, FSub(time_remaining, t_next),
                               Append(log, [ kind |-> IF FLt(t_wall, t_block) THEN "wall" ELSE "block",
                                             t_wall |-> t_wall, t_block |-> t_block,
                                             t_next |-> t_next, at |-> at, after |-> after ]))
             ELSE StepLoop(Move(self, time_remaining), FZero, log)

\* step: the body of the while loop, run once: the engine and the remaining
\* time it leaves, and the event it resolved, if any
Iteration(self, time_remaining) ==
    LET t_wall  == TWall(self)
        t_block == TBlock(self)
        t_next  == FMin(t_wall, t_block)
    IN  IF FLe(t_next, time_remaining)
        THEN LET at    == Move(self, t_next)
                 after == ResolveNext(at, t_wall, t_block)
             IN  [ self |-> after,
                   time_remaining |-> FSub(time_remaining, t_next),
                   log |-> << [ kind |-> IF FLt(t_wall, t_block) THEN "wall" ELSE "block",
                                t_wall |-> t_wall, t_block |-> t_block,
                                t_next |-> t_next, at |-> at, after |-> after ] >> ]
        ELSE [self |-> Move(self, time_remaining), time_remaining |-> FZero, log |-> <<>>]

\* variant: the check without the comparison of the two velocities
TerminalApart(self) ==
    FGe(self.v1, FZero) /\ FGe(self.v2, FZero)

\* variant: the large block required to be strictly the faster
TerminalStrict(self) ==
    FGe(self.v1, FZero) /\ FGe(self.v2, FZero) /\ FGt(self.v1, self.v2)

\* step: the check made after the loop
Terminal(self) ==
    FGe(self.v1, FZero) /\ FGe(self.v2, FZero) /\ FGe(self.v1, self.v2)

\* variant: the flag set as soon as a call resolves nothing
FinishIdle(self, r) ==
    IF Terminal(r) \/ r.collisions = self.collisions THEN [r EXCEPT !.finished = TRUE] ELSE r

\* variant: the flag assigned on every call, true only when the call resolved something
FinishFresh(self, r) ==
    [r EXCEPT !.finished = Terminal(r) /\ r.collisions > self.collisions]

\* step: the flag after the loop, for the engine r the loop left
Finish(self, r) ==
    IF Terminal(r) THEN [r EXCEPT !.finished = TRUE] ELSE r

StepEnd(self, r) ==
    [self |-> Finish(self, r.self), log |-> r.log, cut |-> r.cut]

\* PhysicsEngine.step: the engine after the call, with the log of the call
Step(self, dt) == StepEnd(self, StepLoop(self, dt, <<>>))

-----------------------------------------------------------------------------
(* App.reset_simulation: the count shown next to the simulation *)

\* math.pi
Pi == [s |-> 1, m |-> <<11544, 4368, 8117, 1608>>, e |-> -51]

\* r with bit k set
SetBit(r, k) == [r EXCEPT ![k \div LimbBits + 1] = @ + Pow2(k % LimbBits)]

\* the integer square root of n (eight limbs, below 2^110), its bits above
\* k being those of r: bit k is set when the square still fits
RECURSIVE SqrtBits(_, _, _)
SqrtBits(n, r, k) ==
    IF k < 0 THEN r
    ELSE IF CmpFrom(Mul4(SetBit(r, k), SetBit(r, k)), n, 8) <= 0
         THEN SqrtBits(n, SetBit(r, k), k - 1)
    ELSE SqrtBits(n, r, k - 1)

\* the root r of n with a bit more at its low end, set when r * r # n,
\* times 2^e and rounded
SqrtEnd(n, r, e) == FRound(1, SetSticky(ShlBits4(r, 1), Mul4(r, r) # n), e)

\* sqrt(m * 2^e) for even e and 2^52 <= m < 2^54: the root of m * 2^56 has 55 bits
SqrtEven(m, e) ==
    SqrtEnd(<<0, 0, 0, 0>> \o m, SqrtBits(<<0, 0, 0, 0>> \o m, <<0, 0, 0, 0>>, 54),
            (e - 4 * LimbBits) \div 2 - 1)

\* math.sqrt(x) for x >= 0 or nan, correctly rounded: sqrt(nan) is nan and
\* sqrt(inf) is inf
Sqrt(x) ==
    IF x.s = 0 \/ IsInf(x) THEN x
    ELSE IF x.e % 2 = 0 THEN SqrtEven(x.m, x.e)
    ELSE SqrtEven(ShlBits4(x.m, 1), x.e - 1)

\* a \div 2^k for k >= 0
Shr4(a, k) ==
    ShrBits(ShrLimbs4(a, k \div LimbBits), Pow2(k % LimbBits), Pow2(LimbBits - (k % LimbBits)))

\* the integer a four-limb a below 2^31 stands for
ToInt(a) == a[1] + a[2] * B + a[3] * B * B

\* floor of s * (t + a fraction), the fraction zero when whole
FloorOf(s, t, whole) ==
    IF s > 0 THEN ToInt(t) ELSE - ToInt(t) - (IF whole THEN 0 ELSE 1)

\* the exception math.floor(x) raises, "" when it returns
FloorError(x) ==
    IF IsNaN(x) THEN "ValueError"
    ELSE IF IsInf(x) THEN "OverflowError"
    ELSE ""

\* math.floor(x) for finite x, abs(x) < 2^31
FloorInt(x) ==
    IF x.s = 0 THEN 0
    ELSE IF x.e >= 0 THEN x.s * ToInt(Shl4(x.m, x.e))
    ELSE FloorOf(x.s, Shr4(x.m, -x.e), Shl4(Shr4(x.m, -x.e), -x.e) = x.m)

\* reset_simulation: math.pi * math.sqrt(m1)
TheoryValue(m1) == FMul(Pi, Sqrt(m1))

\* reset_simulation: theory
TheoryCount(m1) == FloorInt(TheoryValue(m1))

\* The text of an entry is a sequence of characters, each character its
\* Unicode code point: "100" is <<49, 48, 48>>.  float(text) is modelled
\* for texts of at most 15 digits and a power of ten of at most 22 either
\* way, where digits and power are exact floats and one rounding gives the
\* nearest float.

\* the whitespace float strips: tab to carriage return, the space, and the
\* spaces beyond ASCII (not the separators 28 to 31, which str.isspace holds)
Spaces ==
    (9..13) \cup {32, 133, 160, 5760} \cup (8192..8202)
        \cup {8232, 8233, 8239, 8287, 12288}

\* the zero of every run of ten decimal digits: "0" (48) and the zeros of
\* the other scripts, which float reads as it reads "0" to "9"
DigitZeros ==
    { 48, 1632, 1776, 1984, 2406, 2534, 2662, 2790, 2918, 3046, 3174, 3302,
      3430, 3558, 3664, 3792, 3872, 4160, 4240, 6112, 6160, 6470, 6608,
      6784, 6800, 6992, 7088, 7232, 7248, 42528, 43216, 43264, 43472,
      43504, 43600, 44016, 65296, 66720, 68912, 69734, 69872, 69942, 70096,
      70384, 70736, 70864, 71248, 71360, 71472, 71904, 72016, 72784, 73040,
      73120, 92768, 92864, 93008, 120782, 120792, 120802, 120812, 120822,
      123200, 123632, 125264, 130032 }

IsDigit(c) == \E z \in DigitZeros : c >= z /\ c <= z + 9

DigitOf(c) == c - (CHOOSE z \in DigitZeros : c >= z /\ c <= z + 9)

\* the number a sequence of digits writes, exact up to 15 digits
RECURSIVE DigitsFloat(_)
DigitsFloat(ds) ==
    IF ds = <<>> THEN FZero
    ELSE FAdd(FMul(DigitsFloat(SubSeq(ds, 1, Len(ds) - 1)), FromInt(10)),
              FromInt(DigitOf(ds[Len(ds)])))

\* 10^k as a float, exact up to k = 22
RECURSIVE Pow10(_)
Pow10(k) == IF k = 0 THEN FromInt(1) ELSE FMul(Pow10(k - 1), FromInt(10))

\* text without the whitespace at its ends
RECURSIVE Strip(_)
Strip(text) ==
    IF text = <<>> THEN text
    ELSE IF text[1] \in Spaces THEN Strip(Tail(text))
    ELSE IF text[Len(text)] \in Spaces THEN Strip(SubSeq(text, 1, Len(text) - 1))
    ELSE text

\* text without its sign: "+" (43) or "-" (45)
Unsigned(text) ==
    IF text # <<>> /\ text[1] \in {43, 45} THEN Tail(text) ELSE text

\* the words float reads in any case: "A" to "Z" (65 to 90) as "a" to "z"
Lower(c) == IF c >= 65 /\ c <= 90 THEN c + 32 ELSE c

LowerCase(body) == [i \in 1..Len(body) |-> Lower(body[i])]

\* "inf" and "infinity"
InfWords == {<<105, 110, 102>>, <<105, 110, 102, 105, 110, 105, 116, 121>>}

\* "nan"
NaNWord == <<110, 97, 110>>

\* digits, with single underscores (95) between digits
DigitPart(ds) ==
    /\ ds # <<>>
    /\ \A i \in 1..Len(ds) :
           \/ IsDigit(ds[i])
           \/ /\ ds[i] = 95
              /\ i > 1 /\ i < Len(ds)
              /\ IsDigit(ds[i - 1]) /\ IsDigit(ds[i + 1])

\* where a character of c first stands in body (Len(body) + 1: nowhere)
FirstOf(body, c) ==
    CHOOSE i \in 1..(Len(body) + 1) :
        /\ i = Len(body) + 1 \/ body[i] \in c
        /\ \A j \in 1..(i - 1) : body[j] \notin c

\* body cut at its exponent mark, "e" (101) or "E" (69), and the part
\* before it cut at its point (46)
Mantissa(body) == SubSeq(body, 1, FirstOf(body, {101, 69}) - 1)
Exponent(body) == SubSeq(body, FirstOf(body, {101, 69}) + 1, Len(body))
Integral(body) == SubSeq(Mantissa(body), 1, FirstOf(Mantissa(body), {46}) - 1)
Fraction(body) ==
    SubSeq(Mantissa(body), FirstOf(Mantissa(body), {46}) + 1, Len(Mantissa(body)))

\* a decimal number: digits before or after at most one point, and after
\* an exponent mark an optional sign and digits
Numeric(body) ==
    /\ Integral(body) = <<>> \/ DigitPart(Integral(body))
    /\ Fraction(body) = <<>> \/ DigitPart(Fraction(body))
    /\ Integral(body) # <<>> \/ Fraction(body) # <<>>
    /\ Mantissa(body) = body \/ DigitPart(Unsigned(Exponent(body)))

\* whether float(text) returns (it raises ValueError otherwise)
WellFormed(text) ==
    \/ LowerCase(Unsigned(Strip(text))) \in InfWords \cup {NaNWord}
    \/ Numeric(Unsigned(Strip(text)))

\* the power of ten body's exponent part writes
ExponentValue(body) ==
    IF Exponent(body) # <<>> /\ Exponent(body)[1] = 45
    THEN - FloorInt(DigitsFloat(SelectSeq(Exponent(body), IsDigit)))
    ELSE FloorInt(DigitsFloat(SelectSeq(Exponent(body), IsDigit)))

\* x * 10^k
Scaled(x, k) == IF k >= 0 THEN FMul(x, Pow10(k)) ELSE FDiv(x, Pow10(-k))

\* the float a well-formed unsigned body writes: its digits as an integer,
\* times the power of ten of its exponent less its fraction's digits
BodyValue(body) ==
    IF LowerCase(body) = NaNWord THEN FNaN
    ELSE IF LowerCase(body) \in InfWords THEN FInf
    ELSE Scaled(DigitsFloat(SelectSeq(Mantissa(body), IsDigit)),
                ExponentValue(body) - Len(SelectSeq(Fraction(body), IsDigit)))

\* float(text): ok is FALSE where float raises ValueError
ParseFloat(text) ==
    IF ~WellFormed(text) THEN [ok |-> FALSE, value |-> FZero]
    ELSE [ok |-> TRUE,
          value |-> IF Strip(text)[1] = 45 THEN FNeg(BodyValue(Unsigned(Strip(text))))
                    ELSE BodyValue(Unsigned(Strip(text)))]

\* reset_simulation: whether the entries get past float and the mass check
\* (nan <= 0 is False: a mass of nan gets past)
Accepted(mass_entry, vel_entry) ==
    /\ ParseFloat(mass_entry).ok
    /\ ParseFloat(vel_entry).ok
    /\ ~FLe(ParseFloat(mass_entry).value, FZero)

-----------------------------------------------------------------------------
(* The engine driven through its interface *)

VARIABLES
    engine,         \* the PhysicsEngine object
    config,         \* the mass and velocity it was constructed with
    prev,           \* the engine before the last operation
    op,             \* the last operation: "create", "step", "wall", "block",
                    \* "reset", "error" (the dialog), "uncaught" (an exception left the handler)
    dts,            \* the dt of every step call made, in order
    events,         \* the events resolved by the last step call
    calls,          \* operations applied since construction
    resolved,       \* events resolved by step calls since construction
    overrun,        \* some call was cut off after MaxEvents events
    theory,         \* the count the application's label shows
    pc,             \* where a step call stands: "idle" (not in a call) or "loop"
    time_remaining, \* step's local time_remaining, as the loop last left it
    entries         \* the texts of the mass entry and the velocity entry

vars == <<engine, config, prev, op, dts, events, calls, resolved, overrun,
          theory, pc, time_remaining, entries>>

\* the count of the label as the window is built: "Theoretical: 31"
LabelStart == 31

\* the texts of the entries as the window is built: "100" and "-100.0"
EntriesStart ==
    [mass |-> <<49, 48, 48>>, velocity |-> <<45, 49, 48, 48, 46, 48>>]

\* the ghost variables of an engine that was just set up
Fresh ==
    /\ config = [mass |-> engine.m1, velocity |-> engine.v1]
    /\ prev = engine
    /\ op = "create"
    /\ dts = <<>>
    /\ events = <<>>
    /\ calls = 0
    /\ resolved = 0
    /\ overrun = FALSE
    /\ pc = "idle"
    /\ time_remaining = FZero

\* engine = PhysicsEngine(m, v)
Created(m, v) ==
    /\ engine = PhysicsEngine(m, v)
    /\ Fresh
    /\ theory = LabelStart
    /\ entries = EntriesStart

\* engine.step(dt)
Stepped(dt) ==
    /\ \E r \in {Step(engine, dt)} :
           /\ engine' = r.self
           /\ events' = r.log
           /\ resolved' = resolved + Len(r.log)
           /\ overrun' = (overrun \/ r.cut)
    /\ prev' = engine
    /\ op' = "step"
    /\ dts' = Append(dts, dt)
    /\ calls' = calls + 1
    /\ UNCHANGED <<config, theory, pc, time_remaining, entries>>

\* Spec: an engine created with any mass and velocity, stepped by any dt

MaxCalls == 3

Masses == {FromInt(1), FromInt(4)}
Velocities == {FromInt(-100), FromInt(-11), FromInt(-3), FZero, FromInt(5)}

\* a dt long enough for every collision of every engine of Init
Burst == FromInt(1000000)

Dts == {FRat(1, 60), FromInt(2), FRat(150, 11), FRat(200, 11), Burst}

Init == \E m \in Masses, v \in Velocities : Created(m, v)

Advance(dt) ==
    /\ calls < MaxCalls
    /\ Stepped(dt)

Next == \E dt \in Dts : Advance(dt)

Spec == Init /\ [][Next]_vars

\* SpecKnown: the application as it starts, reset_simulation with the
\* entries "100" and "-100.0", then animate once per frame

MaxFrames == 450

\* App.__init__: reset_simulation with the entries as built
InitKnown ==
    Created(ParseFloat(EntriesStart.mass).value, ParseFloat(EntriesStart.velocity).value)

\* App.animate
Animate ==
    /\ calls < MaxFrames
    /\ Stepped(FRat(1, 60))

NextKnown == Animate

SpecKnown == InitKnown /\ [][NextKnown]_vars

\* SpecState: an engine whose fields hold any values, and each of its
\* methods applied to it

MaxOps == 2

StateMasses == {FromInt(1), FromInt(4), FromInt(9), FRat(1, 10)}
StateVelocities ==
    {FromInt(-175), FromInt(-100), FromInt(-3), FZero, FRat(1, 3), FromInt(7)}
StatePositions == {FZero, FromInt(X2Start)}
StateDts == {FRat(1, 60), FromInt(2)}

InitState ==
    \E m \in StateMasses, u1 \in StateVelocities, u2 \in StateVelocities, p \in StatePositions :
        /\ engine = [PhysicsEngine(m, u1) EXCEPT !.v2 = u2, !.x2 = p]
        /\ Fresh
        /\ theory = LabelStart
        /\ entries = EntriesStart

Poke(dt) ==
    /\ calls < MaxOps
    /\ Stepped(dt)

\* engine.resolve_wall_collision()
Wall ==
    /\ calls < MaxOps
    /\ engine' = resolve_wall_collision(engine)
    /\ prev' = engine
    /\ op' = "wall"
    /\ calls' = calls + 1
    /\ events' = <<>>
    /\ UNCHANGED <<config, dts, resolved, overrun, theory, pc, time_remaining, entries>>

\* engine.resolve_block_collision()
Block ==
    /\ calls < MaxOps
    /\ engine' = resolve_block_collision(engine)
    /\ prev' = engine
    /\ op' = "block"
    /\ calls' = calls + 1
    /\ events' = <<>>
    /\ UNCHANGED <<config, dts, resolved, overrun, theory, pc, time_remaining, entries>>

NextState ==
    \/ \E dt \in StateDts : Poke(dt)
    \/ Wall
    \/ Block

SpecState == InitState /\ [][NextState]_vars

\* SpecApp: the application: animate steps the engine once per frame, the
\* first frame run by __init__, and between frames the user fills in the
\* entries and presses RESET / APPLY

MaxAppOps == 5

\* "1", "4" after a no-break space, "0", "-4", "", "nan", "inf"
MassEntries ==
    { <<49>>, <<160, 52>>, <<48>>, <<45, 52>>, <<>>, NaNWord, <<105, 110, 102>> }

\* "-1.8e4", "-100.0", "x"
VelEntries ==
    { <<45, 49, 46, 56, 101, 52>>, <<45, 49, 48, 48, 46, 48>>, <<120>> }

\* App.reset_simulation with the entries holding mass_entry and vel_entry.
\* Entries that float or the mass check refuse end in the error dialog with
\* everything as it was.  Otherwise the engine is replaced, and then the
\* count is computed: math.floor raises ValueError for a mass of nan, which
\* ends in the dialog too, and OverflowError for a mass of inf, which
\* nothing catches; either way the label keeps its count.
reset_simulation(mass_entry, vel_entry) ==
    /\ entries' = [mass |-> mass_entry, velocity |-> vel_entry]
    /\ IF Accepted(mass_entry, vel_entry)
       THEN /\ engine' = PhysicsEngine(ParseFloat(mass_entry).value, ParseFloat(vel_entry).value)
            /\ config' = [mass |-> ParseFloat(mass_entry).value,
                          velocity |-> ParseFloat(vel_entry).value]
            /\ dts' = <<>>
            /\ resolved' = 0
            /\ IF FloorError(TheoryValue(ParseFloat(mass_entry).value)) = ""
               THEN /\ theory' = TheoryCount(ParseFloat(mass_entry).value)
                    /\ op' = "reset"
               ELSE /\ theory' = theory
                    /\ op' = IF FloorError(TheoryValue(ParseFloat(mass_entry).value)) = "ValueError"
                             THEN "error" ELSE "uncaught"
       ELSE /\ op' = "error"
            /\ UNCHANGED <<engine, theory, config, dts, resolved>>
    /\ prev' = engine
    /\ events' = <<>>
    /\ calls' = calls + 1
    /\ UNCHANGED <<overrun, pc, time_remaining>>

\* the RESET / APPLY button.  __init__ runs the first animate frame itself
\* before the window takes any input, so a press follows a frame.
Reset(mass_entry, vel_entry) ==
    /\ calls >= 1
    /\ calls < MaxAppOps
    /\ reset_simulation(mass_entry, vel_entry)

\* App.animate
Frame ==
    /\ calls < MaxAppOps
    /\ Stepped(FRat(1, 60))

NextApp ==
    \/ \E mass_entry \in MassEntries, vel_entry \in VelEntries : Reset(mass_entry, vel_entry)
    \/ Frame

SpecApp == InitKnown /\ [][NextApp]_vars

\* SpecArg: an engine stepped by a dt of any sign

MaxArgCalls == 3

ArgDts == {FromInt(-1), FZero, FRat(1, 60), FromInt(2)}

AdvanceArg(dt) ==
    /\ calls < MaxArgCalls
    /\ Stepped(dt)

NextArg == \E dt \in ArgDts : AdvanceArg(dt)

SpecArg == Init /\ [][NextArg]_vars

\* A step call taken one loop iteration at a time

\* the while condition holds: one run of the loop body
Iterate ==
    /\ pc = "loop"
    /\ FGt(time_remaining, FZero)
    /\ \E r \in {Iteration(engine, time_remaining)} :
           /\ engine' = r.self
           /\ time_remaining' = r.time_remaining
           /\ events' = events \o r.log
           /\ resolved' = resolved + Len(r.log)
    /\ UNCHANGED <<config, prev, op, dts, calls, overrun, theory, pc, entries>>

\* the while condition fails: the check after the loop, and the return
Return ==
    /\ pc = "loop"
    /\ ~FGt(time_remaining, FZero)
    /\ engine' = Finish(prev, engine)
    /\ pc' = "idle"
    /\ UNCHANGED <<config, prev, op, dts, events, calls, resolved, overrun, theory,
                   time_remaining, entries>>

\* SpecLong: one call long enough for every collision, taken one loop
\* iteration at a time and followed for MaxIterations iterations, for
\* masses that end with the two blocks at nearly the same velocity

MaxLongCalls == 1

MaxIterations == 80

\* the float 11.598705569133084 (0x1.73289894eb826p+3)
CycleMass == [s |-> 1, m |-> <<14374, 9530, 10392, 1484>>, e |-> -49]

\* the float 481.7236269007113 (0x1.e1b93f9cd10f9p+8)
NearMass == [s |-> 1, m |-> <<4345, 10036, 14655, 1926>>, e |-> -44]

LongMasses == {FromInt(1), FromInt(4), NearMass, CycleMass}
LongVelocities == {FromInt(-397), FromInt(-175), FromInt(-100)}

\* 1e20
LongDt == FMul(FMul(FromInt(100000), FromInt(100000)),
               FMul(FromInt(100000), FromInt(100000)))

InitLong == \E m \in LongMasses, v \in LongVelocities : Created(m, v)

\* step(1e20) is called
CallLong ==
    /\ pc = "idle"
    /\ calls < MaxLongCalls
    /\ pc' = "loop"
    /\ time_remaining' = LongDt
    /\ prev' = engine
    /\ op' = "step"
    /\ dts' = Append(dts, LongDt)
    /\ events' = <<>>
    /\ calls' = calls + 1
    /\ UNCHANGED <<engine, config, resolved, overrun, theory, entries>>

IterateLong ==
    /\ Len(events) < MaxIterations
    /\ Iterate

NextLong ==
    \/ CallLong
    \/ IterateLong
    \/ Return

SpecLong == InitLong /\ [][NextLong]_vars

\* SpecDrive: the App from its start, animate running frame after frame
\* and the RESET / APPLY button pressed between frames.  __init__ runs the
\* first frame itself, before the window takes any input, so the button
\* is pressed after a frame at the earliest.

MaxDriveCalls == 7

\* "1", "4"
DriveMassEntries == { <<49>>, <<52>> }

\* "-18000", "-9000", "0", "-1e-13"
DriveVelEntries ==
    { <<45, 49, 56, 48, 48, 48>>, <<45, 57, 48, 48, 48>>, <<48>>,
      <<45, 49, 101, 45, 49, 51>> }

\* the RESET / APPLY button, once animate has run
Configure(mass_entry, vel_entry) ==
    /\ calls >= 1
    /\ calls < MaxDriveCalls
    /\ reset_simulation(mass_entry, vel_entry)

\* App.animate: the next frame, its dt 1/60 every time
Drive ==
    /\ calls < MaxDriveCalls
    /\ Stepped(FRat(1, 60))

NextDrive ==
    \/ \E mass_entry \in DriveMassEntries, vel_entry \in DriveVelEntries :
           Configure(mass_entry, vel_entry)
    \/ Drive

SpecDrive == InitKnown /\ [][NextDrive]_vars

\* SpecTouch: engines and dts for which a call can end at the instant of an
\* event

MaxTouchCalls == 3

TouchMasses == {FromInt(1), FromInt(3), FromInt(4)}
TouchVelocities == {FromInt(-175), FromInt(-100), FromInt(-3)}
TouchDts == {FRat(1, 60), FRat(3, 2), FromInt(2)}

InitTouch == \E m \in TouchMasses, v \in TouchVelocities : Created(m, v)

AdvanceTouch(dt) ==
    /\ calls < MaxTouchCalls
    /\ Stepped(dt)

NextTouch == \E dt \in TouchDts : AdvanceTouch(dt)

SpecTouch == InitTouch /\ [][NextTouch]_vars

-----------------------------------------------------------------------------
(* The range of the arithmetic *)

\* x is zero or a normal binary64 value
Normal(x) == x.s = 0 \/ IsInf(x) \/ (x.e >= -1074 /\ x.e <= 971)

\* every float the engine holds, and every time a call computed, is in range
NormalRange ==
    /\ \A f \in {"m1", "m2", "x1", "x2", "w1", "w2", "v1", "v2"} : Normal(engine[f])
    /\ \A i \in 1..Len(events) :
           /\ events[i].t_wall = FInf \/ Normal(events[i].t_wall)
           /\ events[i].t_block = FInf \/ Normal(events[i].t_block)
    /\ ~overrun

-----------------------------------------------------------------------------
(* Properties *)

\* C1: after every advance call the large block is not left of the small
\* block's right edge and the small block is not behind the wall:
\* x1 >= x2 + w2 and x2 >= 0.
C1_NoTunneling ==
    /\ FGe(engine.x1, FAdd(engine.x2, engine.w2))
    /\ FGe(engine.x2, FZero)

\* C2: the engine of mass 100 and velocity -100.0, stepped by 1/60 until
\* finished, has counted 31 collisions, the count floor(pi * sqrt(100)) shown.
C2_KnownValue ==
    engine.finished => (engine.collisions = 31 /\ TheoryCount(config.mass) = engine.collisions)

C2_Witness ==
    /\ engine.finished /\ ~prev.finished
    /\ config = [mass |-> FromInt(100), velocity |-> FromInt(-100)]
    /\ \A i \in 1..Len(dts) : dts[i] = FRat(1, 60)

\* the engine a single step of dt leaves, from the engine as constructed
Whole(dt) == Step(PhysicsEngine(config.mass, config.velocity), dt).self

\* what a finished run is compared by: the count, the velocities and the flag
Outcome(self) == <<self.collisions, self.v1, self.v2, self.finished>>

\* C3 as stated: two calls advance(a), advance(b) leave the engine in the
\* state one call advance(a + b) leaves it in (positions, velocities, count
\* and flag).
C3_TickRate ==
    Len(dts) = 2 => engine = Whole(FAdd(dts[1], dts[2]))

\* C3, amended: when a run of advance calls has finished, it has the count,
\* the velocities and the flag of one advance spanning the whole simulation.
C3_Burst ==
    engine.finished => Outcome(Whole(Burst)) = Outcome(engine)

C3_Witness ==
    /\ engine.finished /\ ~prev.finished
    /\ Len(dts) >= 2
    /\ prev.collisions > 0
    /\ engine.collisions > prev.collisions
    /\ engine # Whole(Burst)

\* C4: a step call on a finished engine resolves no collision: the count
\* and both velocities stay as they were.
C4_NoCollisionAfterFinished ==
    [][engine.finished =>
          /\ events' = <<>>
          /\ engine'.collisions = engine.collisions
          /\ engine'.v1 = engine.v1
          /\ engine'.v2 = engine.v2]_vars

C4_Witness ==
    /\ prev.finished /\ op = "step"
    /\ prev.collisions > 0
    /\ engine.x1 # prev.x1

\* C5: a finished engine is finished after every further step call.
C5_TerminalStability ==
    [][engine.finished => engine'.finished]_vars

C5_Witness ==
    /\ prev.finished /\ engine.finished /\ op = "step"
    /\ \E i \in 1..Len(dts) : dts[i] # dts[Len(dts)]

\* C6: the count is the number of events resolved since construction: a
\* step call adds one for each event it resolves, wall or block, and never
\* takes any away.
C6_CountsEvents ==
    /\ engine.collisions = resolved
    /\ engine.collisions = prev.collisions + Len(events)
    /\ \A i \in 1..Len(events) :
           /\ events[i].after.collisions = events[i].at.collisions + 1
           /\ events[i].at.collisions = prev.collisions + i - 1

C6_Witness ==
    /\ prev.collisions > 0
    /\ \E i, j \in 1..Len(events) : events[i].kind = "wall" /\ events[j].kind = "block"

\* m1 * v1 + m2 * v2
Momentum(self) == FAdd(FMul(self.m1, self.v1), FMul(self.m2, self.v2))

\* m1 * abs(v1) + m2 * abs(v2)
MomentumScale(self) == FAdd(FMul(self.m1, FAbs(self.v1)), FMul(self.m2, FAbs(self.v2)))

\* m1 * v1^2 + m2 * v2^2
Energy(self) ==
    FAdd(FMul(self.m1, FMul(self.v1, self.v1)), FMul(self.m2, FMul(self.v2, self.v2)))

\* the relative tolerance: 2^-30
RelTol == FRat(1, 2^30)

\* C7 as stated: a block collision leaves m1 * v1 + m2 * v2 exactly as it was.
C7_MomentumExact ==
    op = "block" => Momentum(engine) = Momentum(prev)

\* C7, amended: a block collision changes m1 * v1 + m2 * v2 by no more than
\* 2^-30 of m1 * abs(u1) + m2 * abs(u2).
C7_MomentumWithin ==
    op = "block" =>
        FLe(FAbs(FSub(Momentum(engine), Momentum(prev))), FMul(RelTol, MomentumScale(prev)))

C7_Witness ==
    /\ op = "block"
    /\ Momentum(engine) # Momentum(prev)
    /\ FGt(prev.m1, FZero)

\* C8 as stated: a block collision leaves m1 * v1^2 + m2 * v2^2 exactly as it was.
C8_EnergyExact ==
    op = "block" => Energy(engine) = Energy(prev)

\* C8, amended: a block collision changes m1 * v1^2 + m2 * v2^2 by no more
\* than 2^-30 of its value.
C8_EnergyWithin ==
    op = "block" =>
        FLe(FAbs(FSub(Energy(engine), Energy(prev))), FMul(RelTol, Energy(prev)))

C8_Witness ==
    /\ op = "block"
    /\ Energy(engine) # Energy(prev)
    /\ prev.v1 # prev.v2

\* C9: a wall bounce, called directly or resolved inside a step call, turns
\* v2 into its exact negation and leaves v1, x1 and x2 alone.
C9_WallReflection ==
    /\ op = "wall" =>
           /\ engine.v2 = FNeg(prev.v2)
           /\ engine.v1 = prev.v1 /\ engine.x1 = prev.x1 /\ engine.x2 = prev.x2
    /\ \A i \in 1..Len(events) :
           events[i].kind = "wall" =>
               /\ events[i].after.v2 = FNeg(events[i].at.v2)
               /\ events[i].after.v1 = events[i].at.v1
               /\ events[i].after.x1 = events[i].at.x1
               /\ events[i].after.x2 = events[i].at.x2

C9_Witness ==
    /\ op = "wall"
    /\ FGt(prev.v2, FZero)
    /\ FLt(engine.v2, FZero)

\* C10: a step call on an engine whose small block rests at the wall
\* (v2 == 0, x2 == 0) while the large block is not closing in (v1 >= v2)
\* resolves no event and leaves the count alone.
C10_Guard ==
    (op = "step" /\ prev.v2 = FZero /\ prev.x2 = FZero /\ FGe(prev.v1, prev.v2)) =>
        (events = <<>> /\ engine.collisions = prev.collisions)

C10_Witness ==
    /\ op = "step" /\ prev.v2 = FZero /\ prev.x2 = FZero
    /\ FGt(prev.v1, prev.v2)
    /\ engine.x1 # prev.x1 /\ engine.x2 = FZero

\* C11: after every successful reset, whatever the engine before it was, the
\* engine has the mass and the velocity of the entries, the small block at
\* rest, no collision counted, finished false, and the fixed positions, with
\* x1 > x2 + w2.
C11_FreshState ==
    op = "reset" =>
        /\ engine.m1 = ParseFloat(entries.mass).value
        /\ engine.v1 = ParseFloat(entries.velocity).value
        /\ engine.m2 = FromInt(M2Mass)
        /\ engine.v2 = FZero
        /\ engine.collisions = 0
        /\ engine.finished = FALSE
        /\ engine.x1 = FromInt(X1Start)
        /\ engine.x2 = FromInt(X2Start)
        /\ engine.w1 = FromInt(W1Width)
        /\ engine.w2 = FromInt(W2Width)
        /\ FGt(engine.x1, FAdd(engine.x2, engine.w2))

\* a reset that replaced a finished engine which had counted collisions and
\* was set up with another mass
C11_Witness ==
    /\ op = "reset"
    /\ prev.finished
    /\ prev.collisions > 0
    /\ prev.m1 # engine.m1
    /\ engine.collisions = 0

\* C12: every engine has a mass above zero, a reset whose mass entry reads
\* as a number of zero or less ends in the error dialog, and every reset
\* that ends in the error dialog leaves the engine as it was.
C12_MassGuard ==
    /\ FGt(engine.m1, FZero)
    /\ (/\ op \in {"reset", "error", "uncaught"}
        /\ ParseFloat(entries.mass).ok
        /\ FLe(ParseFloat(entries.mass).value, FZero)) => op = "error"
    /\ op = "error" => engine = prev

\* C13: a step call with dt <= 0 leaves every field of the engine as it was.
C13_NoOp ==
    (op = "step" /\ FLe(dts[Len(dts)], FZero)) => engine = prev

\* the engine as the loop iteration of the i-th event of the last call found it
Before(i) == IF i = 1 THEN prev ELSE events[i - 1].after

\* C14: in every loop iteration of a step call that resolves an event, both
\* positions are moved on by min(t_wall, t_block) and then one bounce is
\* made and counted: the wall bounce if t_wall < t_block, the block bounce
\* otherwise, equal times included.
C14_EventSelection ==
    op = "step" =>
        \A i \in 1..Len(events) :
            /\ events[i].t_next = FMin(TWall(Before(i)), TBlock(Before(i)))
            /\ events[i].at = Move(Before(i), events[i].t_next)
            /\ events[i].after =
                   IF FLt(TWall(Before(i)), TBlock(Before(i)))
                   THEN resolve_wall_collision(events[i].at)
                   ELSE resolve_block_collision(events[i].at)
            /\ events[i].after.collisions = Before(i).collisions + 1

\* a call that met the wall and the large block at the same instant and
\* made the block bounce
C14_Witness ==
    /\ op = "step"
    /\ \E i \in 1..Len(events) :
           /\ TWall(Before(i)) = TBlock(Before(i))
           /\ TWall(Before(i)) # FInf
           /\ events[i].kind = "block"
           /\ events[i].after.v1 # events[i].at.v1

\* C15: every event a step call resolves is reached after a time t_next > 0;
\* before every block bounce the gap x1 - (x2 + w2) is positive and before
\* every wall bounce x2 is positive.
C15_Progress ==
    op = "step" =>
        \A i \in 1..Len(events) :
            /\ FGt(events[i].t_next, FZero)
            /\ events[i].kind = "block" =>
                   FGt(FSub(Before(i).x1, FAdd(Before(i).x2, Before(i).w2)), FZero)
            /\ events[i].kind = "wall" => FGt(Before(i).x2, FZero)

\* the fields the loop body reads and writes are the same in a and b
SameMotion(a, b) ==
    a.x1 = b.x1 /\ a.x2 = b.x2 /\ a.v1 = b.v1 /\ a.v2 = b.v2

\* C16: the loop of every step call with dt > 0 ends.  What an iteration
\* does depends on the positions, the velocities and time_remaining only,
\* and an iteration that resolves no event ends the loop; so the loop ends
\* only if no iteration that resolves an event leaves all of them as it
\* found them: it takes time (t_next is not 0) or it changes a position or
\* a velocity.
C16_LoopAdvances ==
    op = "step" =>
        \A i \in 1..Len(events) :
            events[i].t_next # FZero \/ ~SameMotion(Before(i), events[i].after)

\* C17: after every step call with dt > 0, finished is true exactly when
\* v2 >= 0 and v1 >= v2, which is exactly when neither a wall time nor a
\* block time is computed for the engine any more.
C17_FinishedExact ==
    (op = "step" /\ FGt(dts[Len(dts)], FZero)) =>
        /\ engine.finished <=> (FGe(engine.v2, FZero) /\ FGe(engine.v1, engine.v2))
        /\ engine.finished <=> (TWall(engine) = FInf /\ TBlock(engine) = FInf)

\* a call that resolved a collision and set finished
C17_Witness ==
    /\ op = "step"
    /\ FGt(dts[Len(dts)], FZero)
    /\ engine.finished
    /\ ~prev.finished
    /\ Len(events) > 0

\* C18: counted from the creation of the engine, the odd events are block
\* bounces and the even ones wall bounces: the first event is a block
\* bounce and no two bounces of one kind follow each other.
C18_Alternation ==
    op = "step" =>
        \A i \in 1..Len(events) :
            /\ events[i].after.collisions = prev.collisions + i
            /\ events[i].kind =
                   IF (prev.collisions + i) % 2 = 1 THEN "block" ELSE "wall"

\* a call that made a block bounce, a wall bounce and a block bounce in turn
C18_Witness ==
    /\ op = "step"
    /\ Len(events) >= 3
    /\ prev.collisions = 0
    /\ events[1].kind = "block"
    /\ events[2].kind = "wall"
    /\ events[3].kind = "block"

\* C19: the driver reaches an engine with finished true.  step is a
\* function of the engine and dt, and the driver's dt is the same at every
\* frame: an engine that a frame leaves exactly as it was is left so by
\* every later frame.  So every frame that leaves the engine not finished
\* has changed it.
C19_FrameAdvances ==
    (op = "step" /\ ~engine.finished) => engine # prev

=============================================================================
